---------------------------- MODULE Spec2Model ----------------------------
(***************************************************************************)
(* Model of the forklift ingest pipeline: Engine.run (engine/engine.py),   *)
(* the Parquet sink PQOutput (outputs/parquet_output.py) and the           *)
(* vectorized TypeCoercion stage (preprocessors/type_coercion.py).         *)
(*                                                                         *)
(* A cell value is a record [t, v]: t is the runtime type of the Python    *)
(* value ("null", "str", "float", "int", "date", "bool") and v its text.   *)
(* A row is a record [rid, fail, cells]: cells is the Python dict (a       *)
(* function from key to cell value); rid is the position of the row in     *)
(* the source stream and fail says whether a row-level stage raises on     *)
(* it (both are bookkeeping, not keys of the dict).                        *)
(***************************************************************************)
EXTENDS Integers, Sequences, FiniteSets, TLC

\* ------------------------------------------------------------------ bounds
MaxRows == 3
MaxBatch == 2
MaxLines == 3
MaxNames == 3
ProcessingChunkSize == 2
OutputChunkSize == 2

\* ------------------------------------------------------------- cell values
PyNone == [t |-> "null", v |-> ""]
PyStr(s) == [t |-> "str", v |-> s]
PyFloat(s) == [t |-> "float", v |-> s]
PyInt(s) == [t |-> "int", v |-> s]
PyDate(s) == [t |-> "date", v |-> s]
PyDatetime(s) == [t |-> "datetime", v |-> s]
PyBool(s) == [t |-> "bool", v |-> s]
PyTrue == [t |-> "bool", v |-> "True"]

SkipFlag == "__forklift_skip__"
TableKey == "_table"
ReservedKeys == {SkipFlag}

\* str.startswith("__forklift_") over the keys a row of the model can carry
StartsWithForklift(k) == k \in ReservedKeys

\* ------------------------------------------------------------ dict helpers
Put(d, k, val) == [x \in (DOMAIN d) \cup {k} |-> IF x = k THEN val ELSE d[x]]
Get(d, k) == IF k \in DOMAIN d THEN d[k] ELSE PyNone
Drop(d, ks) == [x \in (DOMAIN d) \ ks |-> d[x]]
Truthy(c) == c.t = "bool" /\ c.v = "True"

RECURSIVE SeqSum(_)
SeqSum(s) == IF s = <<>> THEN 0 ELSE Head(s) + SeqSum(Tail(s))


\* --------------------------------------------------- text of string cells
\* str.strip() / str.strip_chars() on the strings of the model
Strip(s) == IF s \in {"", " "} THEN "" ELSE s

\* _norm_numeric_tokens: trim, (x) -> -x, drop , $ and the euro sign
NormNumericTokens(s) ==
    CASE s = "$1" -> "1"
      [] s = "(1)" -> "-1"
      [] OTHER -> Strip(s)

\* the text polars gives for cast(pl.Utf8) of a cell
CastUtf8(c) ==
    IF c.t = "bool" THEN (IF c.v = "True" THEN "true" ELSE "false") ELSE c.v

\* cast(pl.Float64, strict=False) of a string: "" stands for null
ParseFloat(s) ==
    CASE s \in {"1", "1.0"} -> "1.0"
      [] s \in {"2", "2.0"} -> "2.0"
      [] s = "-1" -> "-1.0"
      [] OTHER -> ""

\* cast(pl.Float64).cast(pl.Int64, strict=False) of a string
ParseInt(s) ==
    CASE ParseFloat(s) = "1.0" -> "1"
      [] ParseFloat(s) = "2.0" -> "2"
      [] ParseFloat(s) = "-1.0" -> "-1"
      [] OTHER -> ""

\* str.strptime(pl.Date, ...) over the candidate formats, then the Python
\* fallback coerce_date: "" stands for null
ParseDate(s) == IF s \in {"2024-01-05", "2024-01-06"} THEN s ELSE ""

\* str.strptime(pl.Datetime, ...) over the candidate formats, then the
\* fallback _coerce_datetime_opt: "" stands for null
ParseDatetime(s) == IF s = "2024-01-05 10:00:00" THEN s ELSE ""

\* the boolean branch: the trimmed, lower-cased text looked up in the true
\* and false token sets; "" stands for null
ParseBool(s) ==
    CASE Strip(s) \in {"true", "TRUE", "yes", "1"} -> "True"
      [] Strip(s) \in {"false", "no", "0"} -> "False"
      [] OTHER -> ""

\* json.dumps accepts None, str, int, float and bool; a datetime.date raises
JsonSerializable(cells) == \A k \in DOMAIN cells : cells[k].t # "date"

\* --------------------------------------------------------- TypeCoercion
\* A type map is a sequence of [name, type] in declaration order; nulls maps
\* a field name to its null tokens (a set of strings).
NoNulls == [x \in {} |-> {}]

TokensOf(nulls, field) == IF field \in DOMAIN nulls THEN nulls[field] ELSE {}

\* variant of Nullify: the field's null tokens are not looked at
Nullify_NoTokens(nulls, field, c) ==
    IF c.t = "null" \/ Strip(CastUtf8(c)) = "" THEN PyNone ELSE c

\* _nullify: null, blank after trimming, or a null token -> null
Nullify(nulls, field, c) ==
    IF c.t = "null" \/ Strip(CastUtf8(c)) = "" \/ CastUtf8(c) \in TokensOf(nulls, field)
    THEN PyNone ELSE c

\* the cast expression of one declared field, applied to the nullified cell
CastCell(declared, orig, src) ==
    IF src.t = "null" THEN PyNone
    ELSE CASE declared = "integer" ->
                LET p == ParseInt(NormNumericTokens(CastUtf8(src)))
                IN IF p = "" THEN PyNone ELSE PyInt(p)
           [] declared = "number" ->
                LET p == ParseFloat(NormNumericTokens(CastUtf8(src)))
                IN IF p = "" THEN PyNone ELSE PyFloat(p)
           [] declared = "date" ->
                \* is_str is computed on the original column
                IF orig.t = "str"
                THEN LET p == ParseDate(CastUtf8(src))
                     IN IF p = "" THEN PyNone ELSE PyDate(p)
                ELSE PyNone
           [] declared = "boolean" ->
                LET p == ParseBool(CastUtf8(src))
                IN IF p = "" THEN PyNone ELSE PyBool(p)
           [] declared = "datetime" ->
                \* is_str and is_py_dt are computed on the original column
                IF orig.t = "str"
                THEN LET p == ParseDatetime(CastUtf8(src))
                     IN IF p = "" THEN PyNone ELSE PyDatetime(p)
                ELSE IF orig.t = "datetime" THEN src ELSE PyNone
           [] declared = "string" -> PyStr(CastUtf8(src))
           [] OTHER -> src

\* fields of the type map that are columns of the frame, in declaration order
PresentFields(types, cols) ==
    SelectSeq(types, LAMBDA f : f.name \in cols)

TypeOf(types, name) ==
    (CHOOSE i \in DOMAIN types : types[i].name = name)

\* typed = df.with_columns(cast_exprs): every declared column is replaced
TypedCells(types, nulls, cells) ==
    [k \in DOMAIN cells |->
        IF \E i \in DOMAIN types : types[i].name = k
        THEN CastCell(types[TypeOf(types, k)].type, cells[k],
                      Nullify(nulls, k, cells[k]))
        ELSE cells[k]]

\* __nb__<field> & col(field).is_null(), for non-string declared fields
FieldInvalid(types, nulls, cells, f) ==
    /\ f.type # "string"
    /\ Nullify(nulls, f.name, cells[f.name]).t # "null"
    /\ TypedCells(types, nulls, cells)[f.name].t = "null"

\* variant of FailingFields: only the first failing column is named
FailingFields_First(types, nulls, cells) ==
    LET present == PresentFields(types, DOMAIN cells)
        bad == SelectSeq(present, LAMBDA f : FieldInvalid(types, nulls, cells, f))
    IN IF bad = <<>> THEN <<>> ELSE <<bad[1].name>>

FailingFields(types, nulls, cells) ==
    LET present == PresentFields(types, DOMAIN cells)
        bad == SelectSeq(present, LAMBDA f : FieldInvalid(types, nulls, cells, f))
    IN [i \in DOMAIN bad |-> bad[i].name]

RowInvalid(types, nulls, cells) == FailingFields(types, nulls, cells) # <<>>

CoercionError(fields) == [kind |-> "type coercion failed", fields |-> fields]

\* the row dict recorded for a rejected row: bad.select(df.columns).to_dicts()
\* where bad is a filter of the typed frame
ErrorRowCells(types, nulls, cells) == TypedCells(types, nulls, cells)

\* TypeCoercion.process_dataframe: [good, errors]
ProcessDataframe(types, nulls, df) ==
    IF types = <<>> \/ df = <<>>
    THEN [good |-> df, errors |-> <<>>]
    ELSE LET goodRows == SelectSeq(df, LAMBDA r : ~RowInvalid(types, nulls, r.cells))
             badRows == SelectSeq(df, LAMBDA r : RowInvalid(types, nulls, r.cells))
         IN [good |-> [i \in DOMAIN goodRows |->
                          [goodRows[i] EXCEPT !.cells = TypedCells(types, nulls, @)]],
             errors |-> [i \in DOMAIN badRows |->
                          [row |-> [badRows[i] EXCEPT
                                      !.cells = ErrorRowCells(types, nulls, @)],
                           error |-> CoercionError(
                                      FailingFields(types, nulls, badRows[i].cells))]]]


\* ------------------------------------------------------------ configuration
\* One run of Engine.run is set up by the Engine constructor arguments and
\* the schema document; cfg holds what the code derives from them.
Modes == {"vectorized", "chunked"}

\* Engine.preprocessors: the stages of a run, in order.  "type_coercion" is
\* the batch-level TypeCoercion; "row_level" is a stage with apply() only.
Chains == {<<>>, <<"type_coercion">>, <<"row_level", "type_coercion">>}

\* registry._extract_types_and_nulls maps number/integer properties to
\* "number" and string/date properties to "date"
EngineTypes == <<[name |-> "id", type |-> "number"], [name |-> "d", type |-> "date"]>>

\* PQOutput._type_map, from schema["fields"]: absent or typed fields
SinkTypeMaps == {<<>>,
                 <<[name |-> "id", type |-> "integer"], [name |-> "d", type |-> "date"]>>}

\* the x-csv block of the schema: dedupe.keys and the nulls block (absent,
\* or global null tokens)
XcsvBlocks ==
    {[dedupe_keys |-> <<"id">>, nulls |-> NoNulls],
     [dedupe_keys |-> <<"id">>, nulls |-> [g \in {"global"} |-> {"NA"}]],
     [dedupe_keys |-> <<>>, nulls |-> NoNulls]}

\* the table lists a source can enumerate: [name, cols]
TableLists ==
    {<<[name |-> "a/t", cols |-> {"id", "d"}], [name |-> "u", cols |-> {"id"}]>>,
     <<[name |-> "a/t", cols |-> {"id", "d"}], [name |-> "b/t", cols |-> {"id"}]>>}

Configs ==
    [mode : Modes,
     chain : Chains,
     sink_types : SinkTypeMaps,
     xcsv : XcsvBlocks,
     required : {<<"d">>},
     tables : TableLists]

\* the raw rows a table with the given columns can yield: [cells, fail]
Cells2(id, d) == [k \in {"id", "d"} |-> IF k = "id" THEN id ELSE d]
Cells1(id) == [k \in {"id"} |-> id]
RawRows(cols, row_level) ==
    IF "d" \in cols
    THEN {[cells |-> Cells2(PyStr("1"), PyStr("2024-01-05")), fail |-> FALSE],
          [cells |-> Cells2(PyStr("x"), PyStr("2024-01-05")), fail |-> FALSE],
          [cells |-> Cells2(PyStr("1"), PyStr("bad")), fail |-> FALSE],
          [cells |-> Cells2(PyStr("1"), PyNone), fail |-> FALSE],
          [cells |-> Cells2(PyStr("2"), PyStr(" ")), fail |-> FALSE]}
         \cup (IF row_level
               THEN {[cells |-> Cells2(PyStr("1"), PyStr("2024-01-05")), fail |-> TRUE]}
               ELSE {})
    ELSE {[cells |-> Cells1(PyStr("1")), fail |-> FALSE]}

HasRowLevel(chain) == \E i \in DOMAIN chain : chain[i] = "row_level"

\* ------------------------------------------------------------------- state
VARIABLES
    cfg,          \* the configuration of the run (never changes)
    pc,           \* where Engine.run is
    ti,           \* index of the table descriptor being iterated
    buffer,       \* Engine.run: buffer
    seen_keys,    \* Engine.run: seen_keys
    emitq,        \* what _process_dataframe_rows has still to yield
    row_level_errors, \* Engine._row_level_errors
    nrows,        \* number of rows the source has yielded so far
    out,          \* the PQOutput object
    calls,        \* every call of out.write / out.quarantine, in order
    yielded,      \* every row the source yielded, in order
    exc,          \* the exception Engine.run is unwinding with, or "none"
    tc,           \* a TypeCoercion object used on its own: its input batch,
                  \* the batch it returned and its _df_errors
    csv,          \* a CSVInput.iter_rows generator: the lines of its reader,
                  \* its position, previous_row_tuple and the rows it yielded
    dd            \* a call of dedupe_column_names: its argument, its locals
                  \* and where it is

vars == <<cfg, pc, ti, buffer, seen_keys, emitq, row_level_errors, nrows,
          out, calls, yielded, exc, tc, csv, dd>>

\* A column name is a record [stem, sfx]: the text stem followed by one
\* "_<n>" group for every number n of sfx; stem is the part of the name that
\* does not end in such a group.
ColName(stem, sfx) == [stem |-> stem, sfx |-> sfx]

\* dedupe_column_names has not been called
NoDedupe ==
    [stage |-> "none", names |-> <<>>, i |-> 0, seen_counts |-> <<>>,
     deduped |-> <<>>, used_names |-> {}, new_name |-> ColName("", <<>>)]

\* no CSVInput generator has been started
NoCsv ==
    [stage |-> "none", lines |-> <<>>, pos |-> 0, previous_row_tuple |-> <<>>,
     yielded |-> <<>>]

\* no TypeCoercion object is used outside the engine
NoStage ==
    [stage |-> "none", types |-> <<>>, nulls |-> <<>>, df |-> <<>>,
     good |-> <<>>, errors |-> <<>>, good2 |-> <<>>, errors2 |-> <<>>]

\* ------------------------------------------------------------------ PQOutput
\* PQOutput.__init__ then nothing opened yet
NewOutput ==
    [opened |-> FALSE,
     counters |-> [read |-> 0, kept |-> 0, rejected |-> 0],
     row_buffers |-> [x \in {} |-> <<>>],
     buf_order |-> <<>>,            \* insertion order of row_buffers
     writers |-> {},                \* keys of _writers (open ParquetWriters)
     files |-> [x \in {} |-> <<>>], \* parquet files: path -> rows
     quarantine |-> <<>>,           \* lines of _quarantine.jsonl
     quarantine_exists |-> FALSE,
     handle_closed |-> FALSE,
     manifest |-> <<>>,             \* <<>> or <<the counters written>>
     close_calls |-> 0,
     raised |-> "none"]             \* the exception the last call raised

Raised(o) == o.raised # "none"

\* PQOutput.open
OpenOutput(o) ==
    [o EXCEPT !.opened = TRUE,
              !.quarantine_exists = TRUE,
              !.quarantine = <<>>,
              !.counters = [read |-> 0, kept |-> 0, rejected |-> 0]]

\* variant of HasValidation: validation is switched on for every schema
HasValidation_Always(types) == TRUE

\* self._has_validation = bool(self._type_map)
HasValidation(types) == types # <<>>

\* Path(name).name, then "/" and "\" replaced by "_"
SanitizeTableName(name) ==
    CASE name = "a/t" -> "t"
      [] name = "b/t" -> "t"
      [] OTHER -> name

OutPath(name) == SanitizeTableName(name)

\* the quarantine lines written for a list of errors: json.dumps raises on
\* the first row it cannot serialise, the lines before it are written
FirstUnserializable(errors) ==
    IF \E i \in DOMAIN errors : ~JsonSerializable(errors[i].row.cells)
    THEN CHOOSE i \in DOMAIN errors :
            /\ ~JsonSerializable(errors[i].row.cells)
            /\ \A j \in 1..(i - 1) : JsonSerializable(errors[j].row.cells)
    ELSE 0

WriteErrorLines(o, errors) ==
    LET bad == FirstUnserializable(errors)
        n == IF bad = 0 THEN Len(errors) ELSE bad - 1
    IN [o EXCEPT !.quarantine = @ \o SubSeq(errors, 1, n),
                 !.raised = IF bad # 0 THEN "TypeError" ELSE "none"]

\* PQOutput._validate_rows
ValidateRows(types, rows) ==
    IF ~HasValidation(types) \/ rows = <<>>
    THEN [good |-> rows, errors |-> <<>>]
    ELSE ProcessDataframe(types, NoNulls, rows)

\* the Parquet part of _flush_table_chunk: get or create the table's writer,
\* then writer.write_table.  io is "ok", or "write" when write_table raises.
WriteTableChunk(o, t, rows, io) ==
    LET o1 == IF t \in o.writers THEN o
              ELSE [o EXCEPT !.writers = @ \cup {t},
                             !.files = Put(@, OutPath(t), <<>>)]
    IN IF io = "write"
       THEN [o1 EXCEPT !.raised = "ArrowError"]
       ELSE [o1 EXCEPT !.files = Put(@, OutPath(t), @[OutPath(t)] \o rows)]

ClearBuffer(o, t) == [o EXCEPT !.row_buffers = Put(@, t, <<>>)]

\* variant of FinishChunk: the flushed buffer is not emptied
FinishChunk_NoClear(o, t) == o

\* _flush_table_chunk, last statement: the buffer is cleared unless the
\* Parquet write raised
FinishChunk(o, t) == IF Raised(o) THEN o ELSE ClearBuffer(o, t)

\* _flush_table_chunk with validation, after the quarantine lines (o is the
\* sink after them): the counters advance, then the good rows are written
StoreValidated(o, t, res, io) ==
    IF Raised(o) THEN o
    ELSE FinishChunk(
           IF res.good = <<>>
           THEN [o EXCEPT !.counters.kept = @ + Len(res.good),
                          !.counters.rejected = @ + Len(res.errors)]
           ELSE WriteTableChunk(
                  [o EXCEPT !.counters.kept = @ + Len(res.good),
                            !.counters.rejected = @ + Len(res.errors)],
                  t, res.good, io),
           t)

\* _flush_table_chunk with validation: res is the result of _validate_rows
FlushValidated(o, t, res, io) ==
    StoreValidated(WriteErrorLines(o, res.errors), t, res, io)

\* PQOutput._flush_table_chunk
FlushTableChunk(o, types, t, io) ==
    IF t \notin DOMAIN o.row_buffers \/ o.row_buffers[t] = <<>>
    THEN o
    ELSE IF HasValidation(types)
    THEN FlushValidated(o, t, ValidateRows(types, o.row_buffers[t]), io)
    ELSE FinishChunk(WriteTableChunk(o, t, o.row_buffers[t], io), t)

\* variant of Write: the skip flag is ignored, a flagged row is buffered and
\* counted like any other row
Write_KeepsSkipped(o, types, mode, row, io) ==
    LET o1 == [o EXCEPT !.counters.read = @ + 1]
        table_name == IF Get(row.cells, TableKey).t = "null"
                      THEN "data" ELSE row.cells[TableKey].v
        clean_row == [row EXCEPT !.cells =
                        Drop(@, {k \in DOMAIN @ : StartsWithForklift(k)})]
        known == table_name \in DOMAIN o1.row_buffers
        buf == (IF known THEN o1.row_buffers[table_name] ELSE <<>>) \o <<clean_row>>
        o2 == [o1 EXCEPT !.row_buffers = Put(@, table_name, buf),
                         !.buf_order = IF known THEN @ ELSE Append(@, table_name)]
        o3 == IF HasValidation(types) THEN o2
              ELSE [o2 EXCEPT !.counters.kept = @ + 1]
    IN IF mode = "chunked" /\ Len(buf) >= OutputChunkSize
       THEN FlushTableChunk(o3, types, table_name, io)
       ELSE o3

\* PQOutput.write
Write(o, types, mode, row, io) ==
    LET o1 == [o EXCEPT !.counters.read = @ + 1]
    IN IF Truthy(Get(row.cells, SkipFlag))
       THEN o1
       ELSE LET table_name == IF Get(row.cells, TableKey).t = "null"
                              THEN "data" ELSE row.cells[TableKey].v
                clean_row == [row EXCEPT !.cells =
                                Drop(@, {k \in DOMAIN @ : StartsWithForklift(k)})]
                known == table_name \in DOMAIN o1.row_buffers
                buf == (IF known THEN o1.row_buffers[table_name] ELSE <<>>)
                          \o <<clean_row>>
                o2 == [o1 EXCEPT !.row_buffers = Put(@, table_name, buf),
                                 !.buf_order = IF known THEN @
                                               ELSE Append(@, table_name)]
                o3 == IF HasValidation(types) THEN o2
                      ELSE [o2 EXCEPT !.counters.kept = @ + 1]
            IN IF mode = "chunked" /\ Len(buf) >= OutputChunkSize
               THEN FlushTableChunk(o3, types, table_name, io)
               ELSE o3

\* variant of Quarantine: the read counter is not advanced
Quarantine_NoRead(o, rr) ==
    LET o1 == [o EXCEPT !.counters.rejected = @ + 1]
    IN IF JsonSerializable(rr.row.cells)
       THEN [o1 EXCEPT !.quarantine = Append(@, rr)]
       ELSE [o1 EXCEPT !.raised = "TypeError"]

\* PQOutput.quarantine
Quarantine(o, rr) ==
    LET o1 == [o EXCEPT !.counters.read = @ + 1,
                        !.counters.rejected = @ + 1]
    IN IF JsonSerializable(rr.row.cells)
       THEN [o1 EXCEPT !.quarantine = Append(@, rr)]
       ELSE [o1 EXCEPT !.raised = "TypeError"]


\* _flush_vectorized with validation, after the quarantine lines (o is the
\* sink after them): pq.write_table of the good rows, then the counters
VectorizedStore(o, t, res, fails) ==
    IF Raised(o) THEN o
    ELSE IF res.good # <<>> /\ fails THEN [o EXCEPT !.raised = "ArrowError"]
    ELSE ClearBuffer(
           [o EXCEPT !.files = IF res.good = <<>> THEN @
                               ELSE Put(@, OutPath(t), res.good),
                     !.counters.kept = @ + Len(res.good),
                     !.counters.rejected = @ + Len(res.errors)],
           t)

\* one iteration of the loop of PQOutput._flush_vectorized: table t; fails
\* says whether pq.write_table raises for it
FlushVectorizedTable(o, types, t, fails) ==
    IF o.row_buffers[t] = <<>> THEN o
    ELSE IF HasValidation(types)
    THEN VectorizedStore(
           WriteErrorLines(o, ValidateRows(types, o.row_buffers[t]).errors),
           t, ValidateRows(types, o.row_buffers[t]), fails)
    ELSE IF fails THEN [o EXCEPT !.raised = "ArrowError"]
    ELSE ClearBuffer([o EXCEPT !.files = Put(@, OutPath(t), o.row_buffers[t])], t)

\* PQOutput._flush_vectorized from the i-th buffered table on; failAt is the
\* position (in row_buffers order) of the table whose pq.write_table raises
RECURSIVE FlushVectorizedFrom(_, _, _, _)
FlushVectorizedNext(o, types, i, failAt) ==
    IF Raised(o) THEN o ELSE FlushVectorizedFrom(o, types, i + 1, failAt)

FlushVectorizedFrom(o, types, i, failAt) ==
    IF i > Len(o.buf_order) THEN o
    ELSE FlushVectorizedNext(
           FlushVectorizedTable(o, types, o.buf_order[i], failAt = i),
           types, i, failAt)

FlushVectorized(o, types, failAt) ==
    IF o.buf_order = <<>> THEN o ELSE FlushVectorizedFrom(o, types, 1, failAt)

\* the first loop of PQOutput._flush_all_chunked
RECURSIVE FlushChunkedFrom(_, _, _, _, _)
FlushChunkedNext(o, types, i, failAt, io) ==
    IF Raised(o) THEN o ELSE FlushChunkedFrom(o, types, i + 1, failAt, io)

FlushChunkedFrom(o, types, i, failAt, io) ==
    IF i > Len(o.buf_order) THEN o
    ELSE FlushChunkedNext(
           FlushTableChunk(o, types, o.buf_order[i], IF failAt = i THEN io ELSE "ok"),
           types, i, failAt, io)

\* the second loop of PQOutput._flush_all_chunked: the writers are closed
CloseWriters(o) == IF Raised(o) THEN o ELSE [o EXCEPT !.writers = {}]

\* PQOutput._flush_all_chunked: flush every table, then close the writers
FlushAllChunked(o, types, failAt, io) ==
    CloseWriters(FlushChunkedFrom(o, types, 1, failAt, io))

\* PQOutput._flush_parquet
FlushParquet(o, types, mode, failAt, io) ==
    IF mode = "chunked" THEN FlushAllChunked(o, types, failAt, io)
    ELSE FlushVectorized(o, types, failAt)

\* close(), after the flush: self._quarantine_handle.close()
CloseHandle(o) == IF Raised(o) THEN o ELSE [o EXCEPT !.handle_closed = TRUE]

\* close(), finally block: the manifest is written with the counters
WriteManifest(o) == [o EXCEPT !.manifest = <<o.counters>>]

\* the manifest step of a close() without a finally block
WriteManifestUnlessRaised(o) == IF Raised(o) THEN o ELSE WriteManifest(o)

\* variant of CloseOutput: the manifest is written after the flush instead of
\* in a finally block
CloseOutput_NoFinally(o, types, mode, failAt, io) ==
    WriteManifestUnlessRaised(CloseHandle(
        FlushParquet([o EXCEPT !.close_calls = @ + 1, !.raised = "none"],
                     types, mode, failAt, io)))

\* PQOutput.close: flush, close the quarantine handle, and in the finally
\* block write the manifest
CloseOutput(o, types, mode, failAt, io) ==
    WriteManifest(CloseHandle(
        FlushParquet([o EXCEPT !.close_calls = @ + 1, !.raised = "none"],
                     types, mode, failAt, io)))

\* -------------------------------------------------------------------- Engine
\* Engine.__init__: allow_required_nulls = bool(x-csv.nulls)
AllowRequiredNulls(c) == c.xcsv.nulls # NoNulls

\* registry._extract_types_and_nulls: every typed field gets the global tokens
EngineNulls(c) ==
    IF c.xcsv.nulls = NoNulls THEN NoNulls
    ELSE [f \in {EngineTypes[i].name : i \in DOMAIN EngineTypes} |->
             c.xcsv.nulls["global"]]

\* value is None or (isinstance(value, str) and value.strip() == "")
IsNullOrBlank(c) == c.t = "null" \/ (c.t = "str" /\ Strip(c.v) = "")

\* variant of RequiredOk: a required name that is not a key of the row fails
RequiredOk_AbsentFails(c, cells) ==
    \A i \in DOMAIN c.required :
        LET name == c.required[i]
        IN \/ (name \in DOMAIN cells /\ ~IsNullOrBlank(cells[name]))
           \/ AllowRequiredNulls(c)

\* Engine._required_ok
RequiredOk(c, cells) ==
    \A i \in DOMAIN c.required :
        LET name == c.required[i]
        IN \/ name \notin DOMAIN cells
           \/ ~IsNullOrBlank(cells[name])
           \/ AllowRequiredNulls(c)

\* tuple(row.get(k) for k in self.deduplication_key_fields)
KeyTuple(c, cells) == [i \in DOMAIN c.xcsv.dedupe_keys |-> Get(cells, c.xcsv.dedupe_keys[i])]

RowLevelError == [kind |-> "row-level stage raised", fields |-> <<>>]
MissingRequired == [kind |-> "missing required field", fields |-> <<>>]

\* the else branch of _apply_preprocessors_dataframe: a stage with apply()
\* only; a row it raises on is kept and its index recorded
RowLevelStage(df) == {i - 1 : i \in {j \in DOMAIN df : df[j].fail}}

\* Engine._apply_preprocessors_dataframe from stage i on:
\* st = [df, row_level_errors, vectorized_errors]
RECURSIVE ApplyFrom(_, _, _)
ApplyFrom(c, st, i) ==
    IF i > Len(c.chain) THEN st
    ELSE IF c.chain[i] = "type_coercion"
    THEN LET res == ProcessDataframe(EngineTypes, EngineNulls(c), st.df)
         IN ApplyFrom(c, [st EXCEPT !.df = res.good,
                                    !.vectorized_errors = @ \o res.errors], i + 1)
    ELSE ApplyFrom(c, [st EXCEPT !.row_level_errors = @ \cup RowLevelStage(st.df)],
                   i + 1)

ApplyPreprocessorsDataframe(c, df) ==
    ApplyFrom(c, [df |-> df, row_level_errors |-> {}, vectorized_errors |-> <<>>], 1)

\* variant of EmitQueue: the rows a batch-level stage rejected are not
\* yielded
EmitQueue_NoErrors(st) ==
    [i \in DOMAIN st.df |->
        [kind |-> "row", idx |-> i - 1, row |-> st.df[i], error |-> RowLevelError]]

\* what _process_dataframe_rows will go through for a processed batch:
\* first the vectorized errors, then the rows of the frame with their index
EmitQueue(st) ==
    [i \in DOMAIN st.vectorized_errors |->
        [kind |-> "verr", idx |-> 0, row |-> st.vectorized_errors[i].row,
         error |-> st.vectorized_errors[i].error]]
    \o [i \in DOMAIN st.df |->
        [kind |-> "row", idx |-> i - 1, row |-> st.df[i], error |-> RowLevelError]]


NoError == [kind |-> "none", fields |-> <<>>]

\* ------------------------------------------------------------------ actions
Init ==
    /\ cfg \in Configs
    /\ pc = "start"
    /\ ti = 0
    /\ buffer = <<>>
    /\ seen_keys = {}
    /\ emitq = <<>>
    /\ row_level_errors = {}
    /\ nrows = 0
    /\ out = NewOutput
    /\ calls = <<>>
    /\ yielded = <<>>
    /\ exc = "none"
    /\ tc = NoStage
    /\ csv = NoCsv
    /\ dd = NoDedupe

TableName == cfg.tables[ti].name

\* engine.py line 165: output_plugin.open()
Open ==
    /\ pc = "start"
    /\ out' = OpenOutput(out)
    /\ pc' = "tables"
    /\ UNCHANGED <<dd, csv, tc, cfg, ti, buffer, seen_keys, emitq, row_level_errors, nrows,
                   calls, yielded, exc>>

\* engine.py lines 167-170: the first table descriptor is taken
GetTables ==
    /\ pc = "tables"
    /\ ti' = 1
    /\ pc' = "rows"
    /\ buffer' = <<>>
    /\ seen_keys' = {}
    /\ UNCHANGED <<dd, csv, tc, cfg, emitq, row_level_errors, nrows, out, calls, yielded, exc>>

\* variant of SourceRaises: the exception leaves run() without the finally
SourceRaises_NoFinally ==
    /\ pc \in {"tables", "rows"}
    /\ exc' = "SourceError"
    /\ pc' = "done"
    /\ UNCHANGED <<dd, csv, tc, cfg, ti, buffer, seen_keys, emitq, row_level_errors, nrows,
                   out, calls, yielded>>

\* the source raises while enumerating tables or yielding rows
SourceRaises ==
    /\ pc \in {"tables", "rows"}
    /\ exc' = "SourceError"
    /\ pc' = "closing"
    /\ UNCHANGED <<dd, csv, tc, cfg, ti, buffer, seen_keys, emitq, row_level_errors, nrows,
                   out, calls, yielded>>

\* engine.py lines 174-176 / 183-185: the batch goes through the preprocessor
\* chain (a stage may raise), then _process_dataframe_rows starts
StartBatch(df, next_pc) ==
    \E stage_raises \in (IF cfg.chain = <<>> THEN {FALSE} ELSE BOOLEAN) :
        IF stage_raises
        THEN /\ exc' = "StageError"
             /\ pc' = "closing"
             /\ UNCHANGED <<emitq, row_level_errors>>
        ELSE LET st == ApplyPreprocessorsDataframe(cfg, df)
             IN /\ emitq' = EmitQueue(st)
                /\ row_level_errors' = st.row_level_errors
                /\ pc' = next_pc
                /\ exc' = exc

\* variant of NextTable: seen_keys is carried over to the next table
NextTable_NoReset ==
    IF ti < Len(cfg.tables)
    THEN /\ ti' = ti + 1
         /\ pc' = "rows"
         /\ buffer' = <<>>
         /\ seen_keys' = seen_keys
    ELSE /\ pc' = "closing"
         /\ UNCHANGED <<ti, buffer, seen_keys>>

\* engine.py lines 167-170 for the next table, or the end of the for loop
NextTable ==
    IF ti < Len(cfg.tables)
    THEN /\ ti' = ti + 1
         /\ pc' = "rows"
         /\ buffer' = <<>>
         /\ seen_keys' = {}
    ELSE /\ pc' = "closing"
         /\ UNCHANGED <<ti, buffer, seen_keys>>

\* variant of ReadRow: the batch is processed one row late, when the buffer
\* holds more than processing_chunk_size rows
ReadRow_LateBatch ==
    /\ pc = "rows"
    /\ nrows < MaxRows
    /\ \E raw \in RawRows(cfg.tables[ti].cols, HasRowLevel(cfg.chain)) :
        LET row == [rid |-> nrows + 1, fail |-> raw.fail, cells |-> raw.cells]
        IN /\ buffer' = Append(buffer, row)
           /\ yielded' = Append(yielded, [table |-> TableName, row |-> row])
           /\ nrows' = nrows + 1
           /\ IF Len(buffer) + 1 > ProcessingChunkSize
              THEN StartBatch(Append(buffer, row), "emit")
              ELSE UNCHANGED <<emitq, row_level_errors, pc, exc>>
    /\ UNCHANGED <<dd, csv, tc, cfg, ti, seen_keys, out, calls>>

\* engine.py lines 171-176: the table's iterator yields one more row
ReadRow ==
    /\ pc = "rows"
    /\ nrows < MaxRows
    /\ \E raw \in RawRows(cfg.tables[ti].cols, HasRowLevel(cfg.chain)) :
        LET row == [rid |-> nrows + 1, fail |-> raw.fail, cells |-> raw.cells]
        IN /\ buffer' = Append(buffer, row)
           /\ yielded' = Append(yielded, [table |-> TableName, row |-> row])
           /\ nrows' = nrows + 1
           /\ IF Len(buffer) + 1 >= ProcessingChunkSize
              THEN StartBatch(Append(buffer, row), "emit")
              ELSE UNCHANGED <<emitq, row_level_errors, pc, exc>>
    /\ UNCHANGED <<dd, csv, tc, cfg, ti, seen_keys, out, calls>>

\* engine.py lines 182-185: the table's iterator is exhausted
EndOfRows ==
    /\ pc = "rows"
    /\ IF buffer # <<>>
       THEN /\ StartBatch(buffer, "emit_tail")
            /\ UNCHANGED <<ti, buffer, seen_keys>>
       ELSE /\ NextTable
            /\ UNCHANGED <<emitq, row_level_errors, exc>>
    /\ UNCHANGED <<dd, csv, tc, cfg, nrows, out, calls, yielded>>

\* variant of RowResultOf: the rows rejected by a batch-level stage are
\* yielded as the stage recorded them, without the _table key
RowResultOf_NoTableOnErrors(item) ==
    LET withTable == [item.row EXCEPT !.cells = Put(@, TableKey, PyStr(TableName))]
        key_tuple == KeyTuple(cfg, withTable.cells)
    IN IF item.kind = "verr"
       THEN [op |-> "quarantine", row |-> item.row, error |-> item.error,
             seen |-> seen_keys]
       ELSE IF item.idx \in row_level_errors
       THEN [op |-> "quarantine", row |-> withTable, error |-> RowLevelError,
             seen |-> seen_keys]
       ELSE IF ~RequiredOk(cfg, withTable.cells)
       THEN [op |-> "quarantine", row |-> withTable, error |-> MissingRequired,
             seen |-> seen_keys]
       ELSE IF cfg.xcsv.dedupe_keys # <<>> /\ key_tuple \in seen_keys
       THEN [op |-> "write",
             row |-> [withTable EXCEPT !.cells = Put(@, SkipFlag, PyTrue)],
             error |-> NoError, seen |-> seen_keys]
       ELSE [op |-> "write", row |-> withTable, error |-> NoError,
             seen |-> IF cfg.xcsv.dedupe_keys # <<>>
                      THEN seen_keys \cup {key_tuple} ELSE seen_keys]

\* variant of RowResultOf: a duplicate is yielded without the skip flag
RowResultOf_NoFlag(item) ==
    LET withTable == [item.row EXCEPT !.cells = Put(@, TableKey, PyStr(TableName))]
        key_tuple == KeyTuple(cfg, withTable.cells)
    IN IF item.kind = "verr"
       THEN [op |-> "quarantine", row |-> withTable, error |-> item.error,
             seen |-> seen_keys]
       ELSE IF item.idx \in row_level_errors
       THEN [op |-> "quarantine", row |-> withTable, error |-> RowLevelError,
             seen |-> seen_keys]
       ELSE IF ~RequiredOk(cfg, withTable.cells)
       THEN [op |-> "quarantine", row |-> withTable, error |-> MissingRequired,
             seen |-> seen_keys]
       ELSE [op |-> "write", row |-> withTable, error |-> NoError,
             seen |-> IF cfg.xcsv.dedupe_keys # <<>>
                      THEN seen_keys \cup {key_tuple} ELSE seen_keys]

\* one RowResult of _process_dataframe_rows (engine.py lines 118-144):
\* [op, row, error, seen]
RowResultOf(item) ==
    LET withTable == [item.row EXCEPT !.cells = Put(@, TableKey, PyStr(TableName))]
        key_tuple == KeyTuple(cfg, withTable.cells)
    IN IF item.kind = "verr"
       THEN [op |-> "quarantine", row |-> withTable, error |-> item.error,
             seen |-> seen_keys]
       ELSE IF item.idx \in row_level_errors
       THEN [op |-> "quarantine", row |-> withTable, error |-> RowLevelError,
             seen |-> seen_keys]
       ELSE IF ~RequiredOk(cfg, withTable.cells)
       THEN [op |-> "quarantine", row |-> withTable, error |-> MissingRequired,
             seen |-> seen_keys]
       ELSE IF cfg.xcsv.dedupe_keys # <<>> /\ key_tuple \in seen_keys
       THEN [op |-> "write",
             row |-> [withTable EXCEPT !.cells = Put(@, SkipFlag, PyTrue)],
             error |-> NoError, seen |-> seen_keys]
       ELSE [op |-> "write", row |-> withTable, error |-> NoError,
             seen |-> IF cfg.xcsv.dedupe_keys # <<>>
                      THEN seen_keys \cup {key_tuple} ELSE seen_keys]

\* engine.py lines 176-181 / 185-189: the next RowResult goes to the sink
EmitRow ==
    /\ pc \in {"emit", "emit_tail"}
    /\ emitq # <<>>
    /\ \E io \in (IF cfg.mode = "chunked" THEN {"ok", "write"} ELSE {"ok"}) :
      \E rr \in {RowResultOf(Head(emitq))} :
      \E o \in {IF rr.op = "write"
                THEN Write(out, cfg.sink_types, cfg.mode, rr.row, io)
                ELSE Quarantine(out, [row |-> rr.row, error |-> rr.error])} :
           /\ out' = [o EXCEPT !.raised = "none"]
           /\ calls' = Append(calls, [op |-> rr.op, row |-> rr.row, error |-> rr.error])
           /\ seen_keys' = IF /\ ~Raised(o)
                              /\ Tail(emitq) = <<>>
                              /\ pc = "emit_tail"
                              /\ ti < Len(cfg.tables)
                           THEN {} ELSE rr.seen
           /\ IF Raised(o)
              THEN /\ exc' = o.raised
                   /\ pc' = "closing"
                   /\ UNCHANGED <<emitq, ti, buffer>>
              ELSE /\ exc' = exc
                   /\ emitq' = Tail(emitq)
                   /\ IF Tail(emitq) # <<>>
                      THEN UNCHANGED <<pc, ti, buffer>>
                      ELSE IF pc = "emit"
                      THEN /\ buffer' = <<>>
                           /\ pc' = "rows"
                           /\ ti' = ti
                      ELSE IF ti < Len(cfg.tables)
                      THEN /\ ti' = ti + 1
                           /\ pc' = "rows"
                           /\ buffer' = <<>>
                      ELSE /\ pc' = "closing"
                           /\ UNCHANGED <<ti, buffer>>
    /\ UNCHANGED <<dd, csv, tc, cfg, row_level_errors, nrows, yielded>>

\* engine.py lines 190-191: finally: output_plugin.close()
Close ==
    /\ pc = "closing"
    /\ \E failAt \in 0..Len(out.buf_order) :
      \E o \in {CloseOutput(out, cfg.sink_types, cfg.mode, failAt, "write")} :
           /\ out' = [o EXCEPT !.raised = "none"]
           /\ exc' = IF Raised(o) THEN o.raised ELSE exc
    /\ pc' = "done"
    /\ UNCHANGED <<dd, csv, tc, cfg, ti, buffer, seen_keys, emitq, row_level_errors, nrows,
                   calls, yielded>>

Next ==
    \/ Open
    \/ GetTables
    \/ SourceRaises
    \/ ReadRow
    \/ EndOfRows
    \/ EmitRow
    \/ Close

Spec == Init /\ [][Next]_vars

\* ------------------------------------------- TypeCoercion used on its own
\* TypeCoercion(types, nulls).process_dataframe(df) called directly on a
\* batch of raw rows, and then once more on the batch it returned.
DeclaredTypes == {"integer", "number", "boolean", "date", "datetime", "string"}

\* the type map: a field of every declared type, an integer field, and a
\* field that is not a column of the batch
StageTypes(t) ==
    <<[name |-> "a", type |-> t],
      [name |-> "b", type |-> "integer"],
      [name |-> "z", type |-> "number"]>>

StageNulls == {NoNulls, [f \in {"a", "b"} |-> {"NA"}]}

\* raw cells of column a by declared type, and of column b
RawCellsA(t) ==
    {PyNone, PyStr(" "), PyStr("NA")} \cup
    (CASE t \in {"integer", "number"} -> {PyStr("1"), PyStr("$1"), PyStr("x")}
       [] t = "boolean" -> {PyStr("TRUE"), PyStr("x")}
       [] t = "date" -> {PyStr("2024-01-05"), PyStr("bad")}
       [] t = "datetime" -> {PyStr("2024-01-05 10:00:00"), PyStr("bad")}
       [] OTHER -> {PyStr("x")})
RawCellsB == {PyStr("1"), PyStr("x"), PyStr("NA")}

CellsAB(a, b) == [k \in {"a", "b"} |-> IF k = "a" THEN a ELSE b]

\* the batches of at most MaxBatch raw rows
RawBatches(t) ==
    UNION {[1..n -> {CellsAB(a, b) : a \in RawCellsA(t), b \in RawCellsB}] :
             n \in 0..MaxBatch}

BatchRows(cellsSeq) ==
    [i \in DOMAIN cellsSeq |-> [rid |-> i, fail |-> FALSE, cells |-> cellsSeq[i]]]

InitStage ==
    /\ cfg = <<>>
    /\ pc = "stage"
    /\ ti = 0
    /\ buffer = <<>>
    /\ seen_keys = {}
    /\ emitq = <<>>
    /\ row_level_errors = {}
    /\ nrows = 0
    /\ out = NewOutput
    /\ calls = <<>>
    /\ yielded = <<>>
    /\ exc = "none"
    /\ csv = NoCsv
    /\ dd = NoDedupe
    /\ \E t \in DeclaredTypes : \E nl \in StageNulls : \E b \in RawBatches(t) :
        tc = [NoStage EXCEPT !.stage = "input", !.types = StageTypes(t),
                             !.nulls = nl, !.df = BatchRows(b)]

\* tc.process_dataframe(df)
StageProcess ==
    /\ tc.stage = "input"
    /\ \E res \in {ProcessDataframe(tc.types, tc.nulls, tc.df)} :
        tc' = [tc EXCEPT !.stage = "once", !.good = res.good, !.errors = res.errors]
    /\ UNCHANGED <<dd, csv, cfg, pc, ti, buffer, seen_keys, emitq, row_level_errors,
                   nrows, out, calls, yielded, exc>>

\* tc.process_dataframe(good): the stage applied to its own accepted batch
StageReprocess ==
    /\ tc.stage = "once"
    /\ \E res \in {ProcessDataframe(tc.types, tc.nulls, tc.good)} :
        tc' = [tc EXCEPT !.stage = "twice", !.good2 = res.good, !.errors2 = res.errors]
    /\ UNCHANGED <<dd, csv, cfg, pc, ti, buffer, seen_keys, emitq, row_level_errors,
                   nrows, out, calls, yielded, exc>>

NextStage ==
    \/ StageProcess
    \/ StageReprocess

SpecStage == InitStage /\ [][NextStage]_vars

\* ------------------------------------------------------ CSVInput.iter_rows
\* The generator CSVInput.iter_rows over a file whose header gave the field
\* names a and b.  A line is the list of cells csv.reader parsed from it.
CsvFieldnames == <<"a", "b">>

CsvLines ==
    {<<>>, <<"1", "x">>, <<"1", "y">>, <<"1", "x", "e">>, <<"1", "x", "f">>,
     <<"1">>, <<"", " ">>, <<"TOTAL", "5">>}

CsvFiles == UNION {[1..n -> CsvLines] : n \in 0..MaxLines}

\* csv.DictReader: a missing cell is None, extra cells are kept as a list
\* under the key None (rest; empty when the row has no such key)
DictRow(line) ==
    [cells |-> [k \in {"a", "b"} |->
                  LET i == IF k = "a" THEN 1 ELSE 2
                  IN IF i <= Len(line) THEN PyStr(line[i]) ELSE PyNone],
     rest |-> IF Len(line) > 2 THEN SubSeq(line, 3, Len(line)) ELSE <<>>]

\* first_value.startswith(prefix) for a prefix of _FOOTER_PREFIXES
IsFooterRow(row) ==
    LET first_value == IF row.cells["a"].t = "null" THEN ""
                       ELSE Strip(row.cells["a"].v)
    IN first_value \in {"TOTAL", "SUMMARY"}

\* is_empty(val)
IsEmptyCell(c) == c.t = "null" \/ Strip(c.v) = ""
IsEmptyList(l) == \A i \in DOMAIN l : Strip(l[i]) = ""

\* not any(not is_empty(value) for value in row.values())
IsEmptyRow(row) ==
    /\ \A k \in DOMAIN row.cells : IsEmptyCell(row.cells[k])
    /\ IsEmptyList(row.rest)

\* tuple((key, row.get(key, "")) for key in fieldnames)
RowTuple(row) ==
    [i \in DOMAIN CsvFieldnames |-> <<CsvFieldnames[i], row.cells[CsvFieldnames[i]]>>]

\* the loop body's three `continue` tests, in the order of the code; the
\* reader itself passes over a line without cells
Continues(line, previous_row_tuple) ==
    \/ line = <<>>
    \/ IsFooterRow(DictRow(line))
    \/ IsEmptyRow(DictRow(line))
    \/ (previous_row_tuple # <<>> /\ RowTuple(DictRow(line)) = previous_row_tuple)

InitCsv ==
    /\ cfg = <<>>
    /\ pc = "csv"
    /\ ti = 0
    /\ buffer = <<>>
    /\ seen_keys = {}
    /\ emitq = <<>>
    /\ row_level_errors = {}
    /\ nrows = 0
    /\ out = NewOutput
    /\ calls = <<>>
    /\ yielded = <<>>
    /\ exc = "none"
    /\ tc = NoStage
    /\ dd = NoDedupe
    /\ \E f \in CsvFiles :
        csv = [NoCsv EXCEPT !.stage = "iter", !.lines = f, !.pos = 1]

CsvUnchanged ==
    UNCHANGED <<cfg, pc, ti, buffer, seen_keys, emitq, row_level_errors, nrows,
                out, calls, yielded, exc, tc, dd>>

\* the reader gives a line and the loop body ends in `continue`
CsvContinue ==
    /\ csv.stage = "iter"
    /\ csv.pos <= Len(csv.lines)
    /\ Continues(csv.lines[csv.pos], csv.previous_row_tuple)
    /\ csv' = [csv EXCEPT !.pos = @ + 1]
    /\ CsvUnchanged

\* the reader gives a line and the loop body reaches `yield row`
CsvYield ==
    /\ csv.stage = "iter"
    /\ csv.pos <= Len(csv.lines)
    /\ ~Continues(csv.lines[csv.pos], csv.previous_row_tuple)
    /\ csv' = [csv EXCEPT
                 !.pos = @ + 1,
                 !.previous_row_tuple = RowTuple(DictRow(csv.lines[csv.pos])),
                 !.yielded = Append(@, [n |-> csv.pos,
                                        row |-> DictRow(csv.lines[csv.pos])])]
    /\ CsvUnchanged

\* the reader is exhausted: finally, file_handle.close()
CsvExhausted ==
    /\ csv.stage = "iter"
    /\ csv.pos > Len(csv.lines)
    /\ csv' = [csv EXCEPT !.stage = "closed"]
    /\ CsvUnchanged

NextCsv ==
    \/ CsvContinue
    \/ CsvYield
    \/ CsvExhausted

SpecCsv == InitCsv /\ [][NextCsv]_vars

\* ---------------------------------------------------- dedupe_column_names
\* utils.dedupe.dedupe_column_names and its copy in inputs/csv_input.py,
\* _dedupe_column_names, statement by statement.

\* the "_<digits>" groups re.findall finds inside the stem of a name
InnerGroups(stem) == IF stem = "a_1b" THEN <<1>> ELSE <<>>

\* f"{base_name}_1"
WithSuffix1(name) == [name EXCEPT !.sfx = Append(@, 1)]

\* re.match(r"(.+?)(_\d+)+$", new_name): the prefix needs one character at
\* least, so with an empty stem the first group is part of the prefix
ReMatch(name) ==
    IF name.stem = "" THEN Len(name.sfx) >= 2 ELSE Len(name.sfx) >= 1

\* the body of the while loop: with a match, the prefix, then all groups
\* found in the name but the last, then the last number plus one; without a
\* match new_name is left as it is
Increment(name) ==
    IF ~ReMatch(name) THEN name
    ELSE LET k == Len(name.sfx)
             found == InnerGroups(name.stem) \o name.sfx
             prefix == IF name.stem = "" THEN <<name.sfx[1]>> ELSE <<>>
         IN [name EXCEPT !.sfx = prefix \o SubSeq(found, 1, Len(found) - 1)
                                   \o <<name.sfx[k] + 1>>]

\* seen_counts.get(base_name, 0)
CountOf(seen_counts, name) ==
    IF \E j \in DOMAIN seen_counts : seen_counts[j].name = name
    THEN seen_counts[CHOOSE j \in DOMAIN seen_counts : seen_counts[j].name = name].count
    ELSE 0

\* seen_counts[base_name] = n
SetCount(seen_counts, name, n) ==
    IF \E j \in DOMAIN seen_counts : seen_counts[j].name = name
    THEN [j \in DOMAIN seen_counts |->
            IF seen_counts[j].name = name THEN [name |-> name, count |-> n]
            ELSE seen_counts[j]]
    ELSE Append(seen_counts, [name |-> name, count |-> n])

\* the header names a call can be given
HeaderNames ==
    {ColName("x", <<>>), ColName("x", <<1>>), ColName("", <<>>),
     ColName("", <<1>>), ColName("a_1b", <<>>)}

HeaderLists == UNION {[1..n -> HeaderNames] : n \in 0..MaxNames}

InitDedupe ==
    /\ cfg = <<>>
    /\ pc = "dedupe"
    /\ ti = 0
    /\ buffer = <<>>
    /\ seen_keys = {}
    /\ emitq = <<>>
    /\ row_level_errors = {}
    /\ nrows = 0
    /\ out = NewOutput
    /\ calls = <<>>
    /\ yielded = <<>>
    /\ exc = "none"
    /\ tc = NoStage
    /\ csv = NoCsv
    /\ \E names \in HeaderLists :
        dd = [NoDedupe EXCEPT !.stage = "for", !.names = names, !.i = 1]

DedupeUnchanged ==
    UNCHANGED <<cfg, pc, ti, buffer, seen_keys, emitq, row_level_errors, nrows,
                out, calls, yielded, exc, tc, csv>>

\* for name in names, first branch: the name is new and not taken
DedupeKeep ==
    /\ dd.stage = "for"
    /\ dd.i <= Len(dd.names)
    /\ CountOf(dd.seen_counts, dd.names[dd.i]) = 0
    /\ dd.names[dd.i] \notin dd.used_names
    /\ dd' = [dd EXCEPT !.deduped = Append(@, dd.names[dd.i]),
                        !.seen_counts = SetCount(@, dd.names[dd.i], 1),
                        !.used_names = @ \cup {dd.names[dd.i]},
                        !.i = @ + 1]
    /\ DedupeUnchanged

\* for name in names, else branch: new_name = f"{base_name}_1"
DedupeSuffix ==
    /\ dd.stage = "for"
    /\ dd.i <= Len(dd.names)
    /\ ~(/\ CountOf(dd.seen_counts, dd.names[dd.i]) = 0
         /\ dd.names[dd.i] \notin dd.used_names)
    /\ dd' = [dd EXCEPT !.new_name = WithSuffix1(dd.names[dd.i]),
                        !.stage = "while"]
    /\ DedupeUnchanged

\* while new_name in used_names: one pass through the loop body
DedupeIncrement ==
    /\ dd.stage = "while"
    /\ dd.new_name \in dd.used_names
    /\ dd' = [dd EXCEPT !.new_name = Increment(@)]
    /\ DedupeUnchanged

\* the while loop is left: the new name is recorded
DedupeAppend ==
    /\ dd.stage = "while"
    /\ dd.new_name \notin dd.used_names
    /\ dd' = [dd EXCEPT !.deduped = Append(@, dd.new_name),
                        !.seen_counts =
                            SetCount(@, dd.names[dd.i],
                                     CountOf(dd.seen_counts, dd.names[dd.i]) + 1),
                        !.used_names = @ \cup {dd.new_name},
                        !.i = @ + 1,
                        !.stage = "for"]
    /\ DedupeUnchanged

\* return deduped
DedupeReturn ==
    /\ dd.stage = "for"
    /\ dd.i > Len(dd.names)
    /\ dd' = [dd EXCEPT !.stage = "returned"]
    /\ DedupeUnchanged

NextDedupe ==
    \/ DedupeKeep
    \/ DedupeSuffix
    \/ DedupeIncrement
    \/ DedupeAppend
    \/ DedupeReturn

SpecDedupe == InitDedupe /\ [][NextDedupe]_vars

\* the interpreter keeps executing the call: a statement that can be
\* executed is executed
FairDedupe == SpecDedupe /\ WF_vars(NextDedupe)


\* ------------------------------------------------------ derived quantities
IsWrite(c) == c.op = "write"
IsQuarantine(c) == c.op = "quarantine"
Flagged(c) == SkipFlag \in DOMAIN c.row.cells

\* number of rows passed to write() carrying the skip flag
SkippedByFlag == Cardinality({i \in DOMAIN calls : IsWrite(calls[i]) /\ Flagged(calls[i])})

\* rows held in the sink's table buffers whose counting is deferred
BufferedRows == SeqSum([i \in DOMAIN out.buf_order |-> Len(out.row_buffers[out.buf_order[i]])])
PendingValidation == IF cfg.sink_types # <<>> THEN BufferedRows ELSE 0

Balanced(c, extra) == c.read = c.kept + c.rejected + SkippedByFlag + extra

\* ------------------------------------------------------------------- claims

\* C1: for every run of Engine.run that completes without a fatal error, the
\* counters written to _manifest.json satisfy
\* read = kept + rejected + (rows passed to write() with the skip flag).
C1_ManifestBalanced ==
    (pc = "done" /\ exc = "none") =>
        /\ out.manifest # <<>>
        /\ Balanced(out.manifest[1], 0)

C1_Witness ==
    /\ pc = "done" /\ exc = "none"
    /\ out.manifest # <<>>
    /\ out.manifest[1].kept > 0
    /\ out.manifest[1].rejected > 0
    /\ SkippedByFlag > 0

\* C2 as stated: after every write() or quarantine() call that returns, in
\* both modes and also with typed schema fields,
\* read = kept + rejected + skipped_by_flag.
C2_Original ==
    (out.opened /\ out.close_calls = 0 /\ exc = "none") => Balanced(out.counters, 0)

\* C2 amended: after every write() or quarantine() call that returns,
\* read = kept + rejected + skipped_by_flag + (rows buffered in the sink
\* whose validation is deferred); the last term is zero when the schema
\* declares no typed fields.
C2_CheckpointBalanced ==
    (out.opened /\ out.close_calls = 0 /\ exc = "none") =>
        Balanced(out.counters, PendingValidation)

C2_Witness ==
    /\ out.opened /\ out.close_calls = 0 /\ exc = "none"
    /\ cfg.sink_types # <<>>
    /\ PendingValidation > 0
    /\ out.counters.kept > 0
    /\ out.counters.rejected > 0

\* C3: once open() has been called, close() is called exactly once on every
\* exit path of Engine.run: it has not been called while run() is still
\* inside the try block, and it has been called once when run() has returned
\* or raised.
C3_CloseExactlyOnce ==
    /\ pc = "done" => out.close_calls = 1
    /\ pc # "done" => out.close_calls = 0

C3_Witness ==
    /\ pc = "done"
    /\ exc = "StageError"
    /\ out.opened
    /\ out.close_calls = 1
    /\ calls # <<>>

\* C4: after close() has run following open(), _quarantine.jsonl and
\* _manifest.json both exist, for every sequence of write()/quarantine()
\* calls including the empty one, and the manifest has exactly the keys
\* read, kept and rejected.
C4_ArtifactsExist ==
    out.close_calls > 0 =>
        /\ out.quarantine_exists
        /\ out.manifest # <<>>
        /\ DOMAIN out.manifest[1] = {"read", "kept", "rejected"}

C4_Witness ==
    /\ out.close_calls > 0
    /\ exc = "ArrowError"
    /\ out.manifest # <<>>
    /\ out.manifest[1].read > 0

\* -------------------------------------------- the call log, read per table
CallTable(i) == calls[i].row.cells[TableKey].v
CallKey(i) == KeyTuple(cfg, calls[i].row.cells)
DedupOn == cfg.xcsv.dedupe_keys # <<>>

\* the key tuple of call i was recorded by an earlier call for the same table
KeyRecordedBefore(i) ==
    /\ DedupOn
    /\ \E j \in 1..(i - 1) :
        /\ IsWrite(calls[j]) /\ ~Flagged(calls[j])
        /\ CallTable(j) = CallTable(i)
        /\ CallKey(j) = CallKey(i)

\* the row of call i was rejected by a stage of the chain
StageRejected(i) ==
    calls[i].error.kind \in {"type coercion failed", "row-level stage raised"}

\* the rows of table t with key tuple k in the table's Parquet file
FileRowsOf(t, k) ==
    IF OutPath(t) \in DOMAIN out.files
    THEN SelectSeq(out.files[OutPath(t)],
                   LAMBDA r : /\ Get(r.cells, TableKey) = PyStr(t)
                              /\ KeyTuple(cfg, r.cells) = k)
    ELSE <<>>

\* the first row of table t with key tuple k that the driver handed to write()
FirstWritten(t, k) ==
    CHOOSE i \in DOMAIN calls :
        /\ IsWrite(calls[i]) /\ CallTable(i) = t /\ CallKey(i) = k
        /\ \A j \in 1..(i - 1) :
            ~(IsWrite(calls[j]) /\ CallTable(j) = t /\ CallKey(j) = k)

\* the tables of the run have different file names
DistinctFiles ==
    \A i, j \in DOMAIN cfg.tables :
        i # j => OutPath(cfg.tables[i].name) # OutPath(cfg.tables[j].name)

C6_Original ==
    \A i \in DOMAIN calls :
        KeyRecordedBefore(i) => (IsWrite(calls[i]) /\ Flagged(calls[i]))

\* a row that got as far as the dedup check and whose key tuple was already
\* recorded is handed to write() with the flag set to True
C6_Handed ==
    \A i \in DOMAIN calls :
        (/\ KeyRecordedBefore(i)
         /\ ~StageRejected(i)
         /\ RequiredOk(cfg, calls[i].row.cells))
        => /\ IsWrite(calls[i])
           /\ Flagged(calls[i])
           /\ calls[i].row.cells[SkipFlag] = PyTrue

\* the step in which a skip-flagged row is handed to write(): read advances
\* by one, nothing else of the sink changes
C6_Effect ==
    (/\ Len(calls') = Len(calls) + 1
     /\ IsWrite(calls'[Len(calls')])
     /\ Flagged(calls'[Len(calls')]))
    => /\ out'.counters = [out.counters EXCEPT !.read = @ + 1]
       /\ out'.row_buffers = out.row_buffers
       /\ out'.quarantine = out.quarantine
       /\ out'.files = out.files

\* C6 amended: a row that passed the stage chain and the required-field check
\* and whose dedup key tuple was already recorded for the current table is
\* marked with the skip flag and handed to write(), never to quarantine(); for
\* such a row the sink increments read by one, leaves kept and rejected
\* unchanged, appends nothing to any table buffer and writes no quarantine line.
C6_DuplicateSkipped == [](C6_Handed) /\ [][C6_Effect]_vars

C6_Witness ==
    /\ \E i \in DOMAIN calls :
        /\ IsWrite(calls[i]) /\ Flagged(calls[i]) /\ KeyRecordedBefore(i)
        /\ i = Len(calls)
    /\ \E i \in DOMAIN calls :
        /\ IsQuarantine(calls[i]) /\ KeyRecordedBefore(i)
    /\ out.counters.kept > 0
    /\ out.counters.rejected > 0

\* C7 as stated: no row passed to write() has a key with the reserved prefix,
\* duplicates included.
C7_Original ==
    \A i \in DOMAIN calls :
        IsWrite(calls[i]) =>
            \A k \in DOMAIN calls[i].row.cells : ~StartsWithForklift(k)

\* C7 amended: a row passed to write() has no key with the reserved prefix,
\* except that a row the dedup check identified as a duplicate has exactly the
\* key __forklift_skip__; the sink keeps no reserved-prefix key in the rows it
\* buffers or writes to a Parquet file.
C7_FlagOnlyOnDuplicates ==
    /\ \A i \in DOMAIN calls :
        IsWrite(calls[i]) =>
            {k \in DOMAIN calls[i].row.cells : StartsWithForklift(k)}
              = (IF KeyRecordedBefore(i) THEN {SkipFlag} ELSE {})
    /\ \A t \in DOMAIN out.row_buffers : \A n \in DOMAIN out.row_buffers[t] :
        \A k \in DOMAIN out.row_buffers[t][n].cells : ~StartsWithForklift(k)
    /\ \A f \in DOMAIN out.files : \A n \in DOMAIN out.files[f] :
        \A k \in DOMAIN out.files[f][n].cells : ~StartsWithForklift(k)

C7_Witness ==
    /\ \E i \in DOMAIN calls : IsWrite(calls[i]) /\ Flagged(calls[i])
    /\ \E i \in DOMAIN calls : IsWrite(calls[i]) /\ ~Flagged(calls[i])
    /\ \E f \in DOMAIN out.files : out.files[f] # <<>>
    /\ pc = "done"

RequiredViolated(cells) ==
    \E n \in DOMAIN cfg.required :
        /\ cfg.required[n] \in DOMAIN cells
        /\ \/ cells[cfg.required[n]].t = "null"
           \/ (cells[cfg.required[n]].t = "str" /\ cells[cfg.required[n]].v \in {"", " "})

\* C9: a row that got as far as the required-field check is quarantined with
\* a 'missing required field' error exactly when some required name is a key
\* of the row with a null or blank value and the schema extension does not
\* permit nulls; a row without the key is never rejected for that name.
C9_RequiredCheck ==
    \A i \in DOMAIN calls :
        ~StageRejected(i) =>
            ((IsQuarantine(calls[i]) /\ calls[i].error = MissingRequired)
             <=> (RequiredViolated(calls[i].row.cells) /\ cfg.xcsv.nulls = NoNulls))

C9_Witness ==
    /\ \E i \in DOMAIN calls :
        /\ IsQuarantine(calls[i]) /\ calls[i].error = MissingRequired
        /\ calls[i].row.cells["d"] = PyStr(" ")
    /\ \E i \in DOMAIN calls :
        /\ IsWrite(calls[i])
        /\ "d" \notin DOMAIN calls[i].row.cells
    /\ \E i \in DOMAIN calls :
        /\ IsWrite(calls[i])
        /\ "d" \in DOMAIN calls[i].row.cells

\* C10 as stated: a row-scoped failure never terminates Engine.run (the run
\* does not end with the exception of a quarantine write), the row a row-level
\* stage raised on is handed to quarantine(), and every row the source yielded
\* is handed to write() or quarantine().
C10_Original ==
    pc = "done" =>
        /\ exc # "TypeError"
        /\ exc = "none" =>
            /\ \A n \in DOMAIN yielded :
                \E i \in DOMAIN calls : calls[i].row.rid = n
            /\ \A n \in DOMAIN yielded :
                yielded[n].row.fail =>
                    \E i \in DOMAIN calls :
                        calls[i].row.rid = n /\ IsQuarantine(calls[i])

\* ------------------------------------------ the stage's result, row by row
StageRan == tc.stage \in {"once", "twice"}

\* the claim's notion of a null cell and of a text its declared type accepts
NullCell(nulls, f, c) ==
    \/ c.t = "null"
    \/ c.v \in {"", " "}
    \/ (f \in DOMAIN nulls /\ c.v \in nulls[f])

Coercible(type, c) ==
    CASE type \in {"integer", "number"} -> c.v \in {"1", "$1"}
      [] type = "boolean" -> c.v = "TRUE"
      [] type = "date" -> c.v = "2024-01-05"
      [] type = "datetime" -> c.v = "2024-01-05 10:00:00"
      [] OTHER -> TRUE

\* the declared columns of a raw row that are non-null and fail coercion
ShouldFail(types, nulls, cells) ==
    {types[i].name : i \in
        {j \in DOMAIN types :
            /\ types[j].name \in DOMAIN cells
            /\ ~NullCell(nulls, types[j].name, cells[types[j].name])
            /\ ~Coercible(types[j].type, cells[types[j].name])}}

GoodAt(n) == {i \in DOMAIN tc.good : tc.good[i].rid = n}
ErrorsAt(n) == {i \in DOMAIN tc.errors : tc.errors[i].row.rid = n}
ErrorFields(i) == {tc.errors[i].error.fields[j] : j \in DOMAIN tc.errors[i].error.fields}

OutCells(n) ==
    IF GoodAt(n) # {} THEN tc.good[CHOOSE i \in GoodAt(n) : TRUE].cells
    ELSE tc.errors[CHOOSE i \in ErrorsAt(n) : TRUE].row.cells
OutErrorFields(n) == UNION {ErrorFields(i) : i \in ErrorsAt(n)}

C13_Original ==
    tc.stage = "twice" => (tc.good2 = tc.good /\ tc.errors2 = <<>>)

\* ------------------------------------------------ the sink's output, read
HasCoercion == \E i \in DOMAIN cfg.chain : cfg.chain[i] = "type_coercion"
Completed == pc = "done" /\ exc = "none"

QuarantineCalls == {i \in DOMAIN calls : IsQuarantine(calls[i])}
KeptCalls == {i \in DOMAIN calls : IsWrite(calls[i]) /\ ~Flagged(calls[i])}

\* C14 as stated: when the engine was built with the type_coercion
\* preprocessor, the sink writes no quarantine line of its own and counts
\* every non-skipped row passed to write() as kept.
C14_Original ==
    (HasCoercion /\ Completed) =>
        /\ Len(out.quarantine) = Cardinality(QuarantineCalls)
        /\ out.manifest[1].kept = Cardinality(KeptCalls)

\* the rows of logical table t in the Parquet file of t
TableRowsInFile(t) ==
    IF OutPath(t) \in DOMAIN out.files
    THEN SelectSeq(out.files[OutPath(t)], LAMBDA r : Get(r.cells, TableKey) = PyStr(t))
    ELSE <<>>

RejectedRids == {out.quarantine[i].row.rid : i \in DOMAIN out.quarantine}
SkippedRids == {calls[i].row.rid : i \in {j \in DOMAIN calls : Flagged(calls[j])}}

\* C15 as stated: for each logical table the rows of its Parquet output are
\* in the order of the source's row stream, and after a completed run the
\* only rows of the table missing from it are rejected and skipped rows.
C15_Original ==
    \A x \in DOMAIN cfg.tables :
        LET rows == TableRowsInFile(cfg.tables[x].name)
        IN /\ \A i, j \in DOMAIN rows : i < j => rows[i].rid < rows[j].rid
           /\ Completed =>
                {rows[i].rid : i \in DOMAIN rows}
                  = {n \in DOMAIN yielded :
                        /\ yielded[n].table = cfg.tables[x].name
                        /\ n \notin RejectedRids
                        /\ n \notin SkippedRids}

\* the batch of its table that the n-th yielded row belongs to
BatchOf(n) ==
    (Cardinality({m \in 1..n : yielded[m].table = yielded[n].table}) - 1)
        \div ProcessingChunkSize

C17_TableKeySet ==
    \A i \in DOMAIN calls :
        Get(calls[i].row.cells, TableKey) = PyStr(yielded[calls[i].row.rid].table)

C17_Witness ==
    /\ \E i \in DOMAIN calls :
        /\ IsQuarantine(calls[i])
        /\ calls[i].error.kind = "type coercion failed"
        /\ calls[i].row.cells[TableKey] = PyStr("a/t")
    /\ \E i \in DOMAIN calls :
        /\ IsWrite(calls[i])
        /\ calls[i].row.cells[TableKey] = PyStr("b/t")

\* total number of rows in the Parquet files of the destination directory
FilePaths == DOMAIN out.files
RECURSIVE RowsInFiles(_)
RowsInFiles(paths) ==
    IF paths = {} THEN 0
    ELSE LET f == CHOOSE x \in paths : TRUE
         IN Len(out.files[f]) + RowsInFiles(paths \ {f})

\* C18 as stated, for completed runs: after close() the Parquet files hold
\* as many rows in total as the kept counter of the manifest says.
C18_Original ==
    Completed => RowsInFiles(FilePaths) = out.manifest[1].kept

\* C19 as stated: two distinct _table values whose rows the sink buffered
\* are written to two different files.
C19_Original ==
    \A i, j \in DOMAIN out.buf_order :
        i # j => OutPath(out.buf_order[i]) # OutPath(out.buf_order[j])

\* C20 as stated: when a Parquet write fails inside write(), the manifest
\* that close() then writes holds the values the counters had at the point
\* of failure.
C20_Original ==
    [][(pc = "closing" /\ exc = "ArrowError" /\ pc' = "done")
         => out'.manifest = <<out.counters>>]_vars

\* ------------------------------------------------- one write() call, read
\* the step is a write() call of a row without the skip flag that returned
WriteReturned ==
    /\ Len(calls') = Len(calls) + 1
    /\ IsWrite(calls'[Len(calls')])
    /\ ~Flagged(calls'[Len(calls')])
    /\ exc' = "none"

WrittenTable == calls'[Len(calls')].row.cells[TableKey].v
BufferBefore(t) == IF t \in DOMAIN out.row_buffers THEN out.row_buffers[t] ELSE <<>>
Rids(rows) == {rows[i].rid : i \in DOMAIN rows}

\* the rows the step appended to the file of table t, and the quarantine
\* lines it wrote
AppendedRows(t) ==
    IF t \notin out'.writers THEN <<>>
    ELSE IF t \in out.writers
    THEN SubSeq(out'.files[OutPath(t)], Len(out.files[OutPath(t)]) + 1,
                Len(out'.files[OutPath(t)]))
    ELSE out'.files[OutPath(t)]
NewLines == SubSeq(out'.quarantine, Len(out.quarantine) + 1, Len(out'.quarantine))

\* in chunked mode no buffer holds chunk_size rows between two calls
C21_Below ==
    (cfg.mode = "chunked" /\ exc = "none" /\ out.close_calls = 0) =>
        \A t \in DOMAIN out.row_buffers : Len(out.row_buffers[t]) < OutputChunkSize

\* what one write() call in chunked mode does to the buffers and the files
C21_Flush ==
    (WriteReturned /\ cfg.mode = "chunked") =>
        /\ \A u \in DOMAIN out.row_buffers :
            u # WrittenTable => out'.row_buffers[u] = out.row_buffers[u]
        /\ IF Len(BufferBefore(WrittenTable)) + 1 >= OutputChunkSize
           THEN /\ out'.row_buffers[WrittenTable] = <<>>
                /\ Rids(AppendedRows(WrittenTable)) \cup
                     {NewLines[i].row.rid : i \in DOMAIN NewLines}
                     = Rids(BufferBefore(WrittenTable)) \cup
                         {calls'[Len(calls')].row.rid}
                /\ Len(AppendedRows(WrittenTable)) + Len(NewLines)
                     = Len(BufferBefore(WrittenTable)) + 1
                /\ \A i, j \in DOMAIN AppendedRows(WrittenTable) :
                    i < j => AppendedRows(WrittenTable)[i].rid
                               < AppendedRows(WrittenTable)[j].rid
                /\ WrittenTable \in out.writers =>
                     SubSeq(out'.files[OutPath(WrittenTable)], 1,
                            Len(out.files[OutPath(WrittenTable)]))
                       = out.files[OutPath(WrittenTable)]
           ELSE /\ Rids(out'.row_buffers[WrittenTable])
                     = Rids(BufferBefore(WrittenTable)) \cup
                         {calls'[Len(calls')].row.rid}
                /\ out'.files = out.files
                /\ out'.quarantine = out.quarantine

\* C21: in chunked mode, after every write() call that returns, every table
\* buffer holds fewer than chunk_size rows; a buffer that reaches chunk_size
\* is flushed within the same call (its accepted rows are appended to the
\* table's file as one batch, its rejected rows become quarantine lines) and
\* emptied, and the buffers of the other tables are left as they were.
C21_ChunkedBuffers == [](C21_Below) /\ [][C21_Flush]_vars

C21_Witness ==
    /\ cfg.mode = "chunked" /\ exc = "none" /\ out.close_calls = 0
    /\ \E t \in DOMAIN out.row_buffers :
        /\ out.row_buffers[t] = <<>>
        /\ t \in out.writers
        /\ Len(out.files[OutPath(t)]) = OutputChunkSize
    /\ \E u \in DOMAIN out.row_buffers : out.row_buffers[u] # <<>>

\* C22 as stated: once close() has returned or raised, every Parquet writer
\* the sink opened and the quarantine file handle are closed.
C22_Original ==
    out.close_calls > 0 => (out.writers = {} /\ out.handle_closed)

\* ------------------------------------------------ the rows of a CSV file
\* the data rows the claim expects: lines with cells that are not a footer
\* and not empty, except a row whose cells equal those of the row yielded
\* just before it (prev holds that row, or nothing)
RECURSIVE ClaimedRows(_, _, _)
ClaimedRows(lines, i, prev) ==
    IF i > Len(lines) THEN <<>>
    ELSE IF \/ lines[i] = <<>>
            \/ IsFooterRow(DictRow(lines[i]))
            \/ IsEmptyRow(DictRow(lines[i]))
            \/ prev = <<DictRow(lines[i])>>
    THEN ClaimedRows(lines, i + 1, prev)
    ELSE <<[n |-> i, row |-> DictRow(lines[i])]>>
            \o ClaimedRows(lines, i + 1, <<DictRow(lines[i])>>)

\* C23 as stated: iter_rows yields, in source order, every non-empty,
\* non-footer data row except a row whose cells equal those of the row it
\* yielded immediately before.
C23_Original ==
    csv.stage = "closed" => csv.yielded = ClaimedRows(csv.lines, 1, <<>>)

\* ------------------------------------------- the result of a dedupe call
\* name d is name n followed by one or more numeric suffixes
Suffixed(n, d) ==
    /\ d.stem = n.stem
    /\ Len(d.sfx) > Len(n.sfx)
    /\ SubSeq(d.sfx, 1, Len(n.sfx)) = n.sfx

\* the returned list: same length, pairwise distinct, a name that is new and
\* not taken is kept, any other name gets a numeric suffix
C24_Result ==
    /\ Len(dd.deduped) = Len(dd.names)
    /\ \A i, j \in DOMAIN dd.deduped : i # j => dd.deduped[i] # dd.deduped[j]
    /\ \A i \in DOMAIN dd.deduped :
        IF \A j \in 1..(i - 1) :
              dd.names[j] # dd.names[i] /\ dd.deduped[j] # dd.names[i]
        THEN dd.deduped[i] = dd.names[i]
        ELSE Suffixed(dd.names[i], dd.deduped[i])

\* C24 as stated: for every input list dedupe_column_names returns a list of
\* the same length with pairwise distinct names, where the first occurrence
\* of a name that is not taken keeps its name and later duplicates get a
\* numeric suffix.
C24_Original == <>(dd.stage = "returned" /\ C24_Result)

\* C29 as stated: dedupe_column_names terminates for every finite list of
\* strings, lists with three or more occurrences of the empty name included.
C29_Original == <>(dd.stage = "returned")

\* ------------------------------------------------- rows and their calls
CallsOf(n) == {i \in DOMAIN calls : calls[i].row.rid = n}

ChainInvoked ==
    /\ pc = "rows"
    /\ \/ pc' \in {"emit", "emit_tail"}
       \/ (pc' = "closing" /\ exc' = "StageError")

\* the step leaves the current table normally
TableLeft ==
    /\ ti >= 1
    /\ exc' = "none"
    /\ \/ ti' # ti
       \/ (pc # "closing" /\ pc' = "closing")

\* while rows are read the buffer is below processing_chunk_size
C26_BufferBelow ==
    pc = "rows" => Len(buffer) < ProcessingChunkSize

C26_Invocation ==
    /\ ChainInvoked =>
        /\ buffer' # <<>>
        /\ Len(buffer') <= ProcessingChunkSize
        /\ (pc' = "emit" => Len(buffer') = ProcessingChunkSize)
        /\ \A i \in DOMAIN buffer' :
            /\ yielded'[buffer'[i].rid].table = cfg.tables[ti].name
            /\ i > 1 => buffer'[i].rid = buffer'[i - 1].rid + 1
            /\ CallsOf(buffer'[i].rid) = {}
        /\ pc' # "closing" =>
            {emitq'[i].row.rid : i \in DOMAIN emitq'} = Rids(buffer')
    /\ (pc = "emit" /\ pc' = "rows") => buffer' = <<>>
    /\ TableLeft =>
        \/ (pc = "rows" /\ buffer = <<>>)
        \/ (pc = "emit_tail" /\ Len(emitq) = 1)

\* C26: the preprocessor chain is invoked only on non-empty batches of at
\* most processing_chunk_size rows that are consecutive rows of one table and
\* have not been processed before; a batch is processed as soon as the
\* buffer reaches processing_chunk_size and the buffer is emptied afterwards;
\* the residual rows are processed before the driver leaves the table.
C26_Batches == [](C26_BufferBelow) /\ [][C26_Invocation]_vars

C26_Witness ==
    /\ pc = "emit"
    /\ ti = 2
    /\ Len(buffer) = ProcessingChunkSize
    /\ \E i \in DOMAIN calls : CallTable(i) = cfg.tables[1].name
    /\ Len(yielded) = Len(calls) + Len(buffer)

\* C27: in a run that ends without a fatal error every row the source
\* yielded is handed to the sink exactly once, through write() or through
\* quarantine(), so the read counter written at close is the number of rows
\* the source yielded, for every chain of stages and in both batch positions
\* (full batch, residual batch).
C27_EachRowOnce ==
    Completed =>
        /\ \A n \in DOMAIN yielded : Cardinality(CallsOf(n)) = 1
        /\ \A i \in DOMAIN calls : calls[i].row.rid \in DOMAIN yielded
        /\ out.manifest[1].read = Len(yielded)

C27_Witness ==
    /\ Completed
    /\ HasRowLevel(cfg.chain)
    /\ Len(yielded) >= 3
    /\ \E n \in DOMAIN yielded : yielded[n].row.fail
    /\ \E i \in DOMAIN calls : calls[i].error.kind = "type coercion failed"
    /\ \E i \in DOMAIN calls : calls[i].error = MissingRequired
    /\ \E i \in DOMAIN calls : IsWrite(calls[i])

\* the quarantine lines written for the row with position n
LinesOf(n) == {i \in DOMAIN out.quarantine : out.quarantine[i].row.rid = n}

RecordedKeys(t) ==
    {CallKey(i) : i \in {j \in DOMAIN calls :
                            IsWrite(calls[j]) /\ ~Flagged(calls[j]) /\ CallTable(j) = t}}

\* C30: seen_keys holds the key tuples of the rows of the current table that
\* were accepted so far, in all of its batches, and nothing of earlier
\* tables; a row handed to write() is skip-flagged exactly when its key tuple
\* was recorded by an earlier row of the same table, in the same or an
\* earlier batch; a row rejected by the required-field check records nothing.
C30_SeenKeysPerTable ==
    /\ (DedupOn /\ exc = "none" /\ pc \in {"rows", "emit", "emit_tail"}) =>
        seen_keys = RecordedKeys(TableName)
    /\ ~DedupOn => seen_keys = {}
    /\ \A i \in DOMAIN calls :
        IsWrite(calls[i]) => (Flagged(calls[i]) <=> KeyRecordedBefore(i))

C30_Witness ==
    /\ DedupOn
    /\ \E i, j, k \in DOMAIN calls :
        /\ i < j /\ j < k
        /\ CallTable(i) = CallTable(k) /\ CallTable(j) = CallTable(k)
        /\ CallKey(i) = CallKey(k) /\ CallKey(j) = CallKey(k)
        /\ IsQuarantine(calls[i]) /\ calls[i].error = MissingRequired
        /\ IsWrite(calls[j]) /\ ~Flagged(calls[j])
        /\ IsWrite(calls[k]) /\ Flagged(calls[k])
        /\ BatchOf(calls[j].row.rid) < BatchOf(calls[k].row.rid)

=============================================================================
